---- MODULE Spec2Model ----
(***************************************************************************)
(* The pokedex seed script (src/unnamed/part_000): species resolution,     *)
(* evolution-chain cache, record mapping, the sequential orchestrator of   *)
(* main() and the merge-and-persist step, as a state machine.              *)
(*                                                                         *)
(* Encoding of JavaScript values:                                          *)
(*   - a string the code inspects character by character (names, ids) is   *)
(*     a sequence of one-character strings;                                *)
(*   - null/undefined for an object is the record NULL;                    *)
(*   - a nullable number (min_level) is <<>> for null and <<n>> for n.     *)
(***************************************************************************)
EXTENDS Integers, Sequences, FiniteSets, TLC

VARIABLES
  selector,                 \* process.argv: the generation selector, if any
  pc,                       \* position of main() (the await it is suspended on)
  exitCode,                 \* "running", 0 or 1
  generations,              \* main: generations
  genIdx,                   \* main: position of `gen` in generations (1-based)
  speciesList,              \* main: speciesList of the current generation
  i,                        \* main: loop index i (0-based, as in the code)
  successCount, errorCount, \* main: the per-generation counters
  resolvedName, speciesInfo,\* main: result of resolveDefaultPokemonNameAndInfo
  pokemon,                  \* fetchPokemonData: response.data while the chain is awaited
  movePool,                 \* fetchPokemonData: <<movePool>> while the chain is awaited
  allSpecies,               \* main: allSpecies
  evolutionChainDataCache,  \* module-level Map url -> chain document
  evolutionChainCache,      \* module-level Map url -> max depth
  file,                     \* the content of pokedex.json on disk
  existingSpecies, merged,  \* main: locals of the single-generation branch
  faults,                   \* number of upstream faults injected so far
  file0,                    \* history: the file before the run
  readCount,                \* history: number of fs.readFile calls
  writeLog,                 \* history: outcome of each fs.writeFile call
  chainCalls,               \* history: url -> outcomes of the axios calls for it
  speciesLog,               \* history: one entry per species processed
  rosterLog,                \* history: one entry per roster fetched
  seedPc,                   \* seed_all: position of main() ("none": not run by seed_all)
  seedIdx,                  \* seed_all: position in scripts of the script awaited
  seedExit,                 \* seed_all: "running", 0 or 1
  seedLog                   \* seed_all history: the scripts started, with their results

vars == << selector, pc, exitCode, generations, genIdx, speciesList, i,
           successCount, errorCount, resolvedName, speciesInfo, pokemon,
           movePool, allSpecies, evolutionChainDataCache, evolutionChainCache, file,
           existingSpecies, merged, faults, file0, readCount, writeLog,
           chainCalls, speciesLog, rosterLog, seedPc, seedIdx, seedExit,
           seedLog >>

seedVars == <<seedPc, seedIdx, seedExit, seedLog>>

----------------------------------------------------------------------------
(* Bounds of the model *)

\* Number of entries of the generation-1 roster the upstream serves.
RosterLen == 3
\* Upstream faults (errors, degraded or malformed bodies) injected per run.
MaxFaults == 1
\* Longest existing dataset and longest list of new records of MergeSpec.
MaxMergeLen == 3
\* Largest number of nodes of a chain document of ChainSpec.
MaxChainNodes == 4
\* the longest move list of a form document
MaxMoves == 3

----------------------------------------------------------------------------
(* JavaScript values *)

NULL == [null |-> TRUE]

Range(s) == { s[k] : k \in 1..Len(s) }

Max(a, b) == IF a >= b THEN a ELSE b

\* String.prototype.toLowerCase on one character.
LowerChar(c) ==
  CASE c = "B" -> "b"
    [] c = "I" -> "i"
    [] c = "V" -> "v"
    [] c = "E" -> "e"
    [] c = "M" -> "m"
    [] OTHER -> c

\* String.prototype.toUpperCase on one character.
UpperChar(c) ==
  CASE c = "b" -> "B"
    [] c = "i" -> "I"
    [] c = "v" -> "V"
    [] c = "e" -> "E"
    [] c = "m" -> "M"
    [] OTHER -> c

toLowerCase(str) == [k \in 1..Len(str) |-> LowerChar(str[k])]

\* capitalize: str.charAt(0).toUpperCase() + str.slice(1)
capitalize(str) ==
  IF Len(str) = 0 THEN str
  ELSE <<UpperChar(str[1])>> \o SubSeq(str, 2, Len(str))

Digits == <<"0", "1", "2", "3", "4", "5", "6", "7", "8", "9">>

IsDigit(c) == \E d \in 1..10 : Digits[d] = c

DigitVal(c) == (CHOOSE d \in 1..10 : Digits[d] = c) - 1

\* Number.prototype.toString for a non-negative integer.
RECURSIVE toString(_)
toString(n) ==
  IF n < 10 THEN <<Digits[n + 1]>>
  ELSE toString(n \div 10) \o <<Digits[(n % 10) + 1]>>

\* String.prototype.padStart(3, '0')
padStart3(str) ==
  IF Len(str) >= 3 THEN str
  ELSE [k \in 1..(3 - Len(str)) |-> "0"] \o str

\* The leading run of decimal digits of a string.
LeadingDigits(str) ==
  LET digitsUpTo == {n \in 0..Len(str) : \A k \in 1..n : IsDigit(str[k])}
  IN SubSeq(str, 1, Cardinality(digitsUpTo) - 1)

\* The number the first n digits of ds write.
RECURSIVE DigitsValueUpTo(_, _)
DigitsValueUpTo(ds, n) ==
  IF n = 0 THEN 0
  ELSE 10 * DigitsValueUpTo(ds, n - 1) + DigitVal(ds[n])

DigitsValue(ds) == DigitsValueUpTo(ds, Len(ds))

\* parseInt(str) is NaN when str does not start with a digit.
parseIntIsNaN(str) == Len(LeadingDigits(str)) = 0

\* parseInt(str) when it is a number: the value of the leading digits.
parseInt(str) == DigitsValue(LeadingDigits(str))

----------------------------------------------------------------------------
(* Sorting: Array.prototype.sort is stable, with the comparator             *)
(* (a, b) => parseInt(a.species_id) - parseInt(b.species_id)                *)

\* String comparison (a < b: -1, a = b: 0, a > b: 1) of two digit strings.
RECURSIVE CompareStrings(_, _)
CompareStrings(s, t) ==
  IF Len(s) = 0 /\ Len(t) = 0 THEN 0
  ELSE IF Len(s) = 0 THEN -1
  ELSE IF Len(t) = 0 THEN 1
  ELSE IF s[1] = t[1] THEN CompareStrings(Tail(s), Tail(t))
  ELSE IF DigitVal(s[1]) < DigitVal(t[1]) THEN -1 ELSE 1

\* The comparator with the ids compared as strings instead of numbers.
CompareSpeciesId_AsStrings(a, b) == CompareStrings(a.species_id, b.species_id)

\* The comparator; a NaN difference counts as 0.
CompareSpeciesId(a, b) ==
  IF parseIntIsNaN(a.species_id) \/ parseIntIsNaN(b.species_id) THEN 0
  ELSE parseInt(a.species_id) - parseInt(b.species_id)

\* The position of each element after a stable sort: element k comes after
\* the elements that compare smaller and after the elements before it that
\* compare equal.
SortRank(list) ==
  [k \in 1..Len(list) |->
     1 + Cardinality({j \in 1..Len(list) :
                        /\ j # k
                        /\ \E c \in {CompareSpeciesId(list[j], list[k])} :
                             c < 0 \/ (c = 0 /\ j < k)})]

\* Array.prototype.sort with the comparator (the list and the ranks are bound
\* as values, so that each is computed once).
SortSpecies(list) ==
  LET Place(l, rank) == [p \in 1..Len(l) |-> l[CHOOSE k \in 1..Len(l) : rank[k] = p]]
  IN CHOOSE sorted \in UNION { {Place(l, rank) : rank \in {SortRank(l)}} : l \in {list} } :
       TRUE

----------------------------------------------------------------------------
(* extractLevelUpMoves, lines 202-215                                       *)

\* The UTF-16 code unit of a character of a move name.
CodeUnit(c) ==
  CASE c = "-" -> 45
    [] c = "a" -> 97
    [] c = "b" -> 98
    [] OTHER -> 122

\* The comparison of Array.prototype.sort without a comparator: the strings
\* are compared code unit by code unit, a proper prefix coming first.
RECURSIVE CompareCodeUnits(_, _)
CompareCodeUnits(s, t) ==
  IF Len(s) = 0 /\ Len(t) = 0 THEN 0
  ELSE IF Len(s) = 0 THEN -1
  ELSE IF Len(t) = 0 THEN 1
  ELSE IF s[1] = t[1] THEN CompareCodeUnits(Tail(s), Tail(t))
  ELSE IF CodeUnit(s[1]) < CodeUnit(t[1]) THEN -1 ELSE 1

\* Array.from(set).sort(): the names in ascending order (they are distinct).
SortNames(names) ==
  LET rankOf(l) == [k \in 1..Len(l) |->
                     1 + Cardinality({j \in 1..Len(l) :
                                        CompareCodeUnits(l[j], l[k]) < 0})]
      Place(l, rank) == [p \in 1..Len(l) |-> l[CHOOSE k \in 1..Len(l) : rank[k] = p]]
  IN CHOOSE sorted \in
       UNION { {Place(l, rank) : rank \in {rankOf(l)}} : l \in {names} } : TRUE

\* The Set after the first n entries of moves: the names in insertion order
\* (the Set before the entry and the entry are bound as values, so that each
\* is computed once).
RECURSIVE levelUpMoves(_, _)
levelUpMoves(moves, n) ==
  IF n = 0 THEN <<>>
  ELSE LET learned(moveData) ==
             \E d \in 1..Len(moveData.version_group_details) :
               moveData.version_group_details[d].move_learn_method.name
                 = "level-up"
           add(before, moveData) ==
             IF learned(moveData) /\ moveData.move.name \notin Range(before)
             THEN Append(before, moveData.move.name)
             ELSE before
       IN CHOOSE after \in
            UNION { {add(before, moveData) : moveData \in {moves[n]}} :
                    before \in {levelUpMoves(moves, n - 1)} } : TRUE

\* A mutant: the names are returned in insertion order.
extractLevelUpMoves_Unsorted(moves) == levelUpMoves(moves, Len(moves))

extractLevelUpMoves(moves) == SortNames(levelUpMoves(moves, Len(moves)))

----------------------------------------------------------------------------
(* The upstream service: what each endpoint answers when it answers well.   *)

bu == <<"b", "u">>
iv == <<"i", "v">>
ve == <<"v", "e">>
mr == <<"m", "r">>
ee == <<"e", "e">>
ven == <<"v", "e", "n">>
vex == <<"v", "e", "x">>

SpeciesUrlBase == "https://pokeapi.co/api/v2/pokemon-species/"

\* The locator of a species: the species endpoint followed by "<id>/".
SpeciesUrl(id) == [base |-> SpeciesUrlBase, rest |-> toString(id) \o <<"/">>]

\* A locator that carries no numeric identifier.
OpaqueUrl == [base |-> "https://example.org/species/", rest |-> <<"x">>]

Link(name, url, details, children) ==
  [species |-> [name |-> name, url |-> url],
   evolution_details |-> details,
   evolves_to |-> children]

Detail(minLevel, trigger) == [min_level |-> minLevel, trigger |-> [name |-> trigger]]

\* c1: a linear chain of three stages; the root's name is capitalised.
\* c2: a branching chain of two stages.  c3: a single stage.
ChainDocument(url) ==
  CASE url = "c1" ->
         [id |-> 1, chain |->
           Link(<<"B", "u">>, SpeciesUrl(1), <<>>,
             << Link(iv, SpeciesUrl(2), <<Detail(<<16>>, "level-up")>>,
                  << Link(ve, SpeciesUrl(3),
                          <<Detail(<<32>>, "level-up"), Detail(<<>>, "trade")>>,
                          <<>>) >>) >>)]
    [] url = "c2" ->
         [id |-> 2, chain |->
           Link(ee, SpeciesUrl(1000), <<>>,
             << Link(<<"v", "a">>, SpeciesUrl(134), <<Detail(<<>>, "use-item")>>, <<>>),
                Link(<<"j", "o">>, OpaqueUrl, <<>>, <<>>) >>)]
    [] OTHER ->
         [id |-> 3, chain |-> Link(mr, SpeciesUrl(122), <<>>, <<>>)]

ChainUrls == {"c1", "c2", "c3"}

Variety(isDefault, name) == [is_default |-> isDefault, pokemon |-> [name |-> name]]

\* GET pokemon-species/<name>
SpeciesDocument(name) ==
  CASE name = bu -> [id |-> 1, name |-> bu, evolution_chain |-> [url |-> "c1"],
                     varieties |-> <<Variety(TRUE, bu)>>]
    [] name = iv -> [id |-> 2, name |-> iv, evolution_chain |-> [url |-> "c1"],
                     varieties |-> <<Variety(TRUE, iv)>>]
    [] name = ve -> [id |-> 3, name |-> ve, evolution_chain |-> [url |-> "c1"],
                     varieties |-> <<Variety(FALSE, vex), Variety(TRUE, ven)>>]
    [] name = ee -> [id |-> 1000, name |-> ee, evolution_chain |-> [url |-> "c2"],
                     varieties |-> <<Variety(TRUE, ee)>>]
    [] OTHER     -> [id |-> 122, name |-> mr, evolution_chain |-> [url |-> "c3"],
                     varieties |-> <<Variety(TRUE, mr)>>]

\* The forms the pokemon endpoint knows; any other name is answered 404.
PokemonNames == {bu, iv, ven, vex, mr, ee}

\* An entry of a form document's moves: the move and, per version group, the
\* method by which it is learned.
Move(name, methods) ==
  [move |-> [name |-> name],
   version_group_details |->
     [k \in 1..Len(methods) |-> [move_learn_method |-> [name |-> methods[k]]]]]

\* Move names.
mab == <<"a", "b">>
ma == <<"a">>
mhy == <<"a", "-", "b">>

\* The move list of the forms of the model.
KnownMoves ==
  <<Move(mab, <<"machine", "level-up">>), Move(mhy, <<"egg">>),
    Move(ma, <<"level-up">>), Move(mab, <<"level-up">>)>>

\* GET pokemon/<name>
PokemonDocument(name) ==
  CASE name = bu  -> [id |-> 1, name |-> bu, moves |-> KnownMoves]
    [] name = iv  -> [id |-> 2, name |-> iv, moves |-> KnownMoves]
    [] name = ven -> [id |-> 3, name |-> ven, moves |-> KnownMoves]
    [] name = vex -> [id |-> 10003, name |-> vex, moves |-> <<>>]
    [] name = ee  -> [id |-> 1000, name |-> ee, moves |-> KnownMoves]
    [] OTHER      -> [id |-> 122, name |-> mr, moves |-> KnownMoves]

\* GET generation/<gen>: pokemon_species, in the order the service lists them.
GenerationRoster(gen) ==
  CASE gen = 1 -> SubSeq(<<[name |-> iv], [name |-> bu], [name |-> ve], [name |-> mr]>>,
                         1, RosterLen)
    [] gen = 2 -> <<[name |-> ee]>>
    [] OTHER   -> <<>>

\* Degraded species documents the service may answer instead.
NoDefaultVariety(doc) ==
  [doc EXCEPT !.varieties =
     [k \in 1..Len(doc.varieties) |-> [doc.varieties[k] EXCEPT !.is_default = FALSE]]]

EmptyVarieties(doc) == [doc EXCEPT !.varieties = <<>>]

NoChainReference(doc) == [doc EXCEPT !.evolution_chain = NULL]

\* Chain bodies that are not chain documents: an empty (null) body and an
\* object without the chain field.
NullBody == NULL
NoChainBody == [id |-> 0]

----------------------------------------------------------------------------
(* Chain navigator and record mapper (pure functions)                       *)

\* A mutant: the depths of the branches are added up.
RECURSIVE calculateMaxDepth_SumOfBranches(_, _)
calculateMaxDepth_SumOfBranches(chain, currentDepth) ==
  LET RECURSIVE sum(_)
      sum(k) == IF k > Len(chain.evolves_to) THEN 0
                ELSE calculateMaxDepth_SumOfBranches(chain.evolves_to[k], 1) + sum(k + 1)
  IN currentDepth + sum(1)

\* calculateMaxDepth(chain, currentDepth)
RECURSIVE calculateMaxDepth(_, _)
calculateMaxDepth(chain, currentDepth) ==
  IF Len(chain.evolves_to) = 0 THEN currentDepth
  ELSE LET depthOf(k) == calculateMaxDepth(chain.evolves_to[k], currentDepth + 1)
           RECURSIVE fold(_, _)
           fold(k, maxDepth) ==
             IF k > Len(chain.evolves_to) THEN maxDepth
             ELSE fold(k + 1, Max(maxDepth, depthOf(k)))
       IN fold(1, currentDepth)

\* A mutant: the names are compared as they are written.
RECURSIVE findSpeciesNode_CaseSensitive(_, _)
findSpeciesNode_CaseSensitive(chain, speciesName) ==
  IF chain.species.name = speciesName THEN chain
  ELSE LET RECURSIVE search(_)
           search(k) ==
             IF k > Len(chain.evolves_to) THEN NULL
             ELSE LET found == findSpeciesNode_CaseSensitive(chain.evolves_to[k], speciesName)
                  IN IF found # NULL THEN found ELSE search(k + 1)
       IN search(1)

\* findSpeciesNode(chain, speciesName): the node, or NULL.
RECURSIVE findSpeciesNode(_, _)
findSpeciesNode(chain, speciesName) ==
  IF toLowerCase(chain.species.name) = toLowerCase(speciesName) THEN chain
  ELSE LET RECURSIVE search(_)
           search(k) ==
             IF k > Len(chain.evolves_to) THEN NULL
             ELSE LET found == findSpeciesNode(chain.evolves_to[k], speciesName)
                  IN IF found # NULL THEN found ELSE search(k + 1)
       IN search(1)

\* speciesUrl.match(/pokemon-species\/(\d+)/): the captured digits, <<>> if no match.
MatchSpeciesId(url) ==
  IF url.base = SpeciesUrlBase THEN LeadingDigits(url.rest) ELSE <<>>

\* extractEvolutions(node)
extractEvolutions(node) ==
  [k \in 1..Len(node.evolves_to) |->
     LET evolution == node.evolves_to[k]
         speciesIdMatch == MatchSpeciesId(evolution.species.url)
         targetSpeciesId == IF Len(speciesIdMatch) > 0
                            THEN padStart3(speciesIdMatch)
                            ELSE evolution.species.name
         hasDetail == Len(evolution.evolution_details) > 0
     IN [target_species_id |-> targetSpeciesId,
         min_level |-> IF hasDetail THEN evolution.evolution_details[1].min_level
                       ELSE <<>>,
         trigger |-> IF hasDetail THEN evolution.evolution_details[1].trigger.name
                     ELSE "unknown"]]

\* A mutant: the depth must exceed 3.
IsStarterCandidate_Deeper(maxDepth, baseSpeciesName, speciesName) ==
  maxDepth > 3 /\ baseSpeciesName = toLowerCase(speciesName)

\* maxDepth >= 3 && baseSpeciesName === speciesName.toLowerCase()
IsStarterCandidate(maxDepth, baseSpeciesName, speciesName) ==
  maxDepth >= 3 /\ baseSpeciesName = toLowerCase(speciesName)

\* A chain body on which fetchPokemonData's navigation does not throw.
IsChainDocument(body) == "chain" \in DOMAIN body

\* The output record of fetchPokemonData, given the form document, the move
\* pool extracted from it at line 417 and the value getEvolutionChain returned
\* (NULL when there is no chain to use).
PokemonSpeciesOutput(pokemonDoc, pool, speciesName, generation, evolutionChain) ==
  LET known == evolutionChain # NULL
      maxDepth == calculateMaxDepth(evolutionChain.chain, 1)
      baseSpeciesName == toLowerCase(evolutionChain.chain.species.name)
      speciesNode == findSpeciesNode(evolutionChain.chain, speciesName)
  IN [species_id |-> padStart3(toString(pokemonDoc.id)),
      display_name |-> capitalize(speciesName),
      generation |-> generation,
      move_pool |-> pool,
      is_starter_candidate |->
        IF known THEN IsStarterCandidate(maxDepth, baseSpeciesName, speciesName)
        ELSE FALSE,
      evolutions |->
        IF known /\ speciesNode # NULL THEN extractEvolutions(speciesNode)
        ELSE <<>>]

\* A mutant: the first listed variety is taken, flagged default or not.
ResolvedName_FirstVariety(species, speciesName) ==
  IF Len(species.varieties) > 0 THEN species.varieties[1].pokemon.name
  ELSE speciesName

\* resolveDefaultPokemonNameAndInfo, given the species body received.
ResolvedName(species, speciesName) ==
  LET defaults == {k \in 1..Len(species.varieties) : species.varieties[k].is_default}
  IN IF defaults # {}
     THEN species.varieties[CHOOSE k \in defaults : \A m \in defaults : k <= m].pokemon.name
     ELSE IF Len(species.varieties) > 0 THEN species.varieties[1].pokemon.name
     ELSE speciesName

----------------------------------------------------------------------------
(* The persisted file and the initial states                                *)

\* What pokedex.json can hold: nothing (no file), a JSON array of records,
\* JSON that is not an array, or bytes that are not JSON.
AbsentFile == [kind |-> "absent"]
ArrayFile(records) == [kind |-> "array", records |-> records]
ObjectFile == [kind |-> "object"]
GarbageFile == [kind |-> "garbage"]

\* A record as an earlier run of an earlier version left it.
StoredRecord(id, name, generation) ==
  [species_id |-> padStart3(toString(id)),
   display_name |-> capitalize(name),
   generation |-> generation,
   is_starter_candidate |-> FALSE,
   evolutions |-> <<>>]

\* A dataset persisted by an earlier run: generations 1, 2 and 3, sorted by id.
StoredDataset ==
  << StoredRecord(1, bu, 1), StoredRecord(252, <<"t", "r">>, 3),
     StoredRecord(1000, ee, 2) >>

InitialFiles == {AbsentFile, ArrayFile(StoredDataset), ObjectFile, GarbageFile}

\* The generation selector: absent, or the text after "--gen=" / "-g=".
NoSelector == [given |-> FALSE, text |-> <<>>]
Selector(text) == [given |-> TRUE, text |-> text]
Selectors ==
  {NoSelector, Selector(<<"1">>), Selector(<<"2">>), Selector(<<"0">>),
   Selector(<<"1", "0">>), Selector(<<"x">>), Selector(<<"2", "x">>)}

EmptyCache == [u \in {} |-> NULL]

\* seed_pokedex is run on its own, not by seed_all.
NoSeedAll ==
  /\ seedPc = "none"
  /\ seedIdx = 1
  /\ seedExit = "running"
  /\ seedLog = <<>>

\* The variables main() has not assigned yet, and the histories.
InitLocals ==
  /\ NoSeedAll
  /\ exitCode = "running"
  /\ genIdx = 1
  /\ speciesList = <<>>
  /\ i = 0
  /\ successCount = 0
  /\ errorCount = 0
  /\ resolvedName = <<>>
  /\ speciesInfo = NULL
  /\ pokemon = NULL
  /\ movePool = <<>>
  /\ evolutionChainDataCache = EmptyCache
  /\ evolutionChainCache = EmptyCache
  /\ faults = 0
  /\ readCount = 0
  /\ writeLog = <<>>
  /\ chainCalls = [u \in ChainUrls |-> <<>>]
  /\ speciesLog = <<>>
  /\ rosterLog = <<>>

Init ==
  /\ selector \in Selectors
  /\ file \in InitialFiles
  /\ file0 = file
  /\ pc = "start"
  /\ generations = <<>>
  /\ allSpecies = <<>>
  /\ existingSpecies = <<>>
  /\ merged = <<>>
  /\ InitLocals

----------------------------------------------------------------------------
(* main(): argument parsing, lines 472-493                                  *)

FullGenerations == <<1, 2, 3, 4, 5, 6, 7, 8, 9>>

\* isNaN(genNum) || genNum < 1 || genNum > 9
InvalidSelector(text) ==
  parseIntIsNaN(text) \/ parseInt(text) < 1 \/ parseInt(text) > 9

cacheVars == <<evolutionChainDataCache, evolutionChainCache, chainCalls>>
fileVars == <<file, file0, readCount, writeLog, existingSpecies, merged>>
loopVars == <<speciesList, i, successCount, errorCount, resolvedName,
              speciesInfo, pokemon, movePool, speciesLog, rosterLog>>

ParseArgs ==
  /\ pc = "start"
  /\ IF ~selector.given
     THEN /\ generations' = FullGenerations
          /\ pc' = "rosterFetch"
          /\ exitCode' = exitCode
     ELSE IF InvalidSelector(selector.text)
     THEN /\ generations' = generations
          /\ pc' = "exit"
          /\ exitCode' = 1
     ELSE /\ generations' = <<parseInt(selector.text)>>
          /\ pc' = "rosterFetch"
          /\ exitCode' = exitCode
  /\ UNCHANGED <<seedVars, selector, genIdx, allSpecies, faults>>
  /\ UNCHANGED <<cacheVars, fileVars, loopVars>>

----------------------------------------------------------------------------
(* main(): the generation loop and the species loop, lines 495-557          *)

gen == generations[genIdx]

\* A mutant: after the last generation main() never gets to Merge & Persist.
AdvanceGeneration_Hang(all) ==
  /\ genIdx' = genIdx + 1
  /\ allSpecies' = all
  /\ pc' = IF genIdx + 1 > Len(generations) THEN "hung" ELSE "rosterFetch"

\* The end of one iteration of `for (const gen of generations)`: the next
\* generation's roster fetch, or, after the last, the sort of line 557 and mkdir.
AdvanceGeneration(all) ==
  /\ genIdx' = genIdx + 1
  /\ IF genIdx + 1 > Len(generations)
     THEN pc' = "mkdir" /\ allSpecies' = SortSpecies(all)
     ELSE pc' = "rosterFetch" /\ allSpecies' = all

\* History: a roster that was fetched, and the counters when its loop ended.
RosterEntry(n, s, e) ==
  [gen |-> gen, rosterLen |-> n, successCount |-> s, errorCount |-> e]

\* await axios.get(generation/<gen>), line 500
RosterFetch ==
  /\ pc = "rosterFetch"
  /\ \/ \* the roster arrives
        \E list \in {GenerationRoster(gen)} :
           /\ speciesList' = list
           /\ successCount' = 0
           /\ errorCount' = 0
           /\ i' = 0
           /\ faults' = faults
           /\ IF Len(list) = 0
              THEN /\ rosterLog' = Append(rosterLog, RosterEntry(0, 0, 0))
                   /\ AdvanceGeneration(allSpecies)
              ELSE /\ pc' = "resolve"
                   /\ UNCHANGED <<rosterLog, genIdx, allSpecies>>
     \/ \* the request fails: the catch of line 547
        /\ faults < MaxFaults
        /\ faults' = faults + 1
        /\ AdvanceGeneration(allSpecies)
        /\ UNCHANGED <<speciesList, successCount, errorCount, i, rosterLog>>
  /\ UNCHANGED <<seedVars, selector, exitCode, generations, resolvedName, speciesInfo,
                 pokemon, movePool, speciesLog>>
  /\ UNCHANGED <<cacheVars, fileVars>>

speciesName == speciesList[i + 1].name

LogEntry(speciesKind) ==
  [gen |-> gen, index |-> i, name |-> speciesName, species |-> speciesKind,
   form |-> "pending", chainUrl |-> "", chain |-> "none", chainValue |-> FALSE,
   finished |-> FALSE, aborted |-> FALSE, recorded |-> FALSE, record |-> NULL,
   successCount |-> successCount, errorCount |-> errorCount]

\* A mutant: no species metadata is returned when the variety list is empty.
ResolvedInfo_DroppedWhenNoVariety(species) ==
  IF Len(species.varieties) = 0 THEN NULL ELSE species

\* return { resolvedName, speciesInfo: species }, line 378
ResolvedInfo(species) == species

\* A mutant: the catch handles request errors only and rethrows the others.
CaughtInResolveDefault_RequestErrorsOnly(kind) == kind # "malformed"

\* try { ... } catch (error) { ...; return { resolvedName: speciesName,
\* speciesInfo: null } }, lines 353 and 380-388: whatever is thrown while the
\* species is fetched and read is caught.
CaughtInResolveDefault(kind) == TRUE

\* await resolveDefaultPokemonNameAndInfo(species.name), line 516
ResolveFetch ==
  /\ pc = "resolve"
  /\ \/ \* the species document arrives
        \E kind \in {"ok", "nodefault", "novarieties", "nochain"} :
        \E doc \in {SpeciesDocument(speciesName)} :
        \E species \in {CASE kind = "ok" -> doc
                          [] kind = "nodefault" -> NoDefaultVariety(doc)
                          [] kind = "novarieties" -> EmptyVarieties(doc)
                          [] OTHER -> NoChainReference(doc)} :
             /\ kind # "ok" => faults < MaxFaults
             /\ faults' = IF kind = "ok" THEN faults ELSE faults + 1
             /\ resolvedName' = ResolvedName(species, speciesName)
             /\ speciesInfo' = ResolvedInfo(species)
             /\ speciesLog' = Append(speciesLog, LogEntry(kind))
             /\ pc' = "sleep1"
             /\ UNCHANGED <<genIdx, allSpecies, rosterLog>>
     \/ \* the request fails, or the body has no variety list: the catch of line 380
        \E kind \in {"error", "malformed"} :
          /\ faults < MaxFaults
          /\ faults' = faults + 1
          /\ IF CaughtInResolveDefault(kind)
             THEN /\ resolvedName' = speciesName
                  /\ speciesInfo' = NULL
                  /\ speciesLog' = Append(speciesLog, LogEntry(kind))
                  /\ pc' = "sleep1"
                  /\ UNCHANGED <<genIdx, allSpecies, rosterLog>>
             ELSE \* it would reach the catch of line 547
                  /\ speciesLog' = Append(speciesLog,
                                         [LogEntry(kind) EXCEPT !.aborted = TRUE])
                  /\ rosterLog' = Append(rosterLog,
                                        RosterEntry(Len(speciesList), successCount,
                                                    errorCount))
                  /\ AdvanceGeneration(allSpecies)
                  /\ UNCHANGED <<resolvedName, speciesInfo>>
  /\ UNCHANGED <<seedVars, selector, exitCode, generations, speciesList, i, successCount,
                 errorCount, pokemon, movePool>>
  /\ UNCHANGED <<cacheVars, fileVars>>

\* await sleep(75), line 519
SleepAfterResolve ==
  /\ pc = "sleep1"
  /\ pc' = "formFetch"
  /\ UNCHANGED <<seedVars, selector, exitCode, generations, genIdx, allSpecies, faults>>
  /\ UNCHANGED <<cacheVars, fileVars, loopVars>>

\* A mutant: no species counts as failed.
IsFailure_Never(pokemonData, info) == FALSE

\* A mutant: a species counts as failed also when its resolution fell back.
IsFailure_OnFallback(pokemonData, info) == pokemonData = NULL \/ info = NULL

\* if (pokemonData) {...} else { errorCount++ }, lines 524-529
IsFailure(pokemonData, info) == pokemonData = NULL

\* Lines 524-542 and the end of the generation: what follows the return of
\* fetchPokemonData, up to the next await.
FinishSpecies(returned, formKind, chainUrl, chainKind, chainValue) ==
  \E pokemonData \in {returned} :
  \E all \in {IF pokemonData # NULL THEN Append(allSpecies, pokemonData)
              ELSE allSpecies} :
  LET failed == IsFailure(pokemonData, speciesInfo)
      s == IF failed THEN successCount ELSE successCount + 1
      e == IF failed THEN errorCount + 1 ELSE errorCount
  IN /\ successCount' = s
     /\ errorCount' = e
     /\ speciesLog' = [speciesLog EXCEPT ![Len(speciesLog)] =
                         [@ EXCEPT !.form = formKind, !.chainUrl = chainUrl,
                                   !.chain = chainKind, !.chainValue = chainValue,
                                   !.finished = TRUE,
                                   !.recorded = pokemonData # NULL,
                                   !.record = pokemonData,
                                   !.successCount = s, !.errorCount = e]]
     /\ pokemon' = NULL
     /\ movePool' = <<>>
     /\ IF i < Len(speciesList) - 1
        THEN /\ pc' = "sleep2"
             /\ allSpecies' = all
             /\ UNCHANGED <<genIdx, rosterLog>>
        ELSE /\ rosterLog' = Append(rosterLog,
                                    RosterEntry(Len(speciesList), s, e))
             /\ AdvanceGeneration(all)

\* An exception that leaves fetchPokemonData reaches the catch of line 547: the
\* rest of the generation's roster is skipped.
AbortGeneration(formKind) ==
  /\ speciesLog' = [speciesLog EXCEPT ![Len(speciesLog)] =
                      [@ EXCEPT !.form = formKind, !.aborted = TRUE]]
  /\ pokemon' = NULL
  /\ movePool' = <<>>
  /\ rosterLog' = Append(rosterLog, RosterEntry(Len(speciesList),
                                                successCount, errorCount))
  /\ AdvanceGeneration(allSpecies)
  /\ UNCHANGED <<successCount, errorCount>>

\* A mutant: the catch handles request errors only and rethrows the others.
CaughtInFetchPokemonData_RequestErrorsOnly(formKind) == formKind # "malformed"

\* try { ... } catch (error) { ...; return null; }, lines 398 and 460-467:
\* whatever is thrown while the form is fetched and mapped is caught.
CaughtInFetchPokemonData(formKind) == TRUE

\* speciesInfo?.evolution_chain?.url, line 423
HasChainUrl(info) == info # NULL /\ info.evolution_chain # NULL

\* A mutant: the cache is never hit.
CacheHas_Never(cache, url) == FALSE

\* evolutionChainDataCache.has(url), line 243
CacheHas(cache, url) == url \in DOMAIN cache

CachePut(cache, url, value) ==
  [u \in DOMAIN cache \cup {url} |-> IF u = url THEN value ELSE cache[u]]

\* The rest of fetchPokemonData once getEvolutionChain has returned `chain`:
\* a truthy value that is no chain document makes line 429 throw, and the
\* catch of line 460 returns null.
MapRecord(pokemonDoc, pool, chain) ==
  IF chain # NULL /\ ~IsChainDocument(chain) THEN NULL
  ELSE PokemonSpeciesOutput(pokemonDoc, pool, speciesName, gen, chain)

\* await axios.get(pokemon/<pokemonName>) in fetchPokemonData, line 399, and
\* what follows up to the next await.
FormFetch ==
  /\ pc = "formFetch"
  /\ \/ \* the form document arrives
        /\ resolvedName \in PokemonNames
        /\ faults' = faults
        /\ \E doc \in {PokemonDocument(resolvedName)} :
           \E pool \in {extractLevelUpMoves(doc.moves)} :
           LET url == speciesInfo.evolution_chain.url
           IN IF ~HasChainUrl(speciesInfo)
              THEN \E record \in {MapRecord(doc, pool, NULL)} :
                     FinishSpecies(record, "ok", "", "none", FALSE)
              ELSE IF CacheHas(evolutionChainDataCache, url)
              THEN \E record \in {MapRecord(doc, pool, evolutionChainDataCache[url])} :
                     FinishSpecies(record, "ok", url, "hit",
                                   evolutionChainDataCache[url] # NULL)
              ELSE /\ pokemon' = doc
                   /\ movePool' = <<pool>>
                   /\ pc' = "chainFetch"
                   /\ UNCHANGED <<genIdx, allSpecies, successCount, errorCount,
                                  speciesLog, rosterLog>>
     \/ \* the service knows no such form (404)
        /\ resolvedName \notin PokemonNames
        /\ faults' = faults
        /\ IF CaughtInFetchPokemonData("notfound")
           THEN FinishSpecies(NULL, "notfound", "", "none", FALSE)
           ELSE AbortGeneration("notfound")
     \/ \* the request fails, or the body cannot be mapped: the catch of line 460
        \E kind \in {"error", "malformed"} :
          /\ faults < MaxFaults
          /\ faults' = faults + 1
          /\ IF CaughtInFetchPokemonData(kind)
             THEN FinishSpecies(NULL, kind, "", "none", FALSE)
             ELSE AbortGeneration(kind)
  /\ UNCHANGED <<seedVars, selector, exitCode, generations, speciesList, i, resolvedName,
                 speciesInfo>>
  /\ UNCHANGED <<cacheVars, fileVars>>

\* Lines 253-261 of getEvolutionChain on a chain document, the rest of
\* fetchPokemonData and what follows in main.
ChainArrives(url, body) ==
  /\ faults' = faults
  /\ evolutionChainDataCache' = CachePut(evolutionChainDataCache, url, body)
  /\ evolutionChainCache' =
       CachePut(evolutionChainCache, url, calculateMaxDepth(body.chain, 1))
  /\ chainCalls' = [chainCalls EXCEPT ![url] = Append(@, "ok")]
  /\ \E record \in {MapRecord(pokemon, movePool[1], body)} :
       FinishSpecies(record, "ok", url, "ok", TRUE)

\* await axios.get(evolutionChainUrl) in getEvolutionChain, line 248, the rest
\* of getEvolutionChain and of fetchPokemonData, and what follows in main.
ChainFetch ==
  /\ pc = "chainFetch"
  /\ \E url \in {speciesInfo.evolution_chain.url} :
        \/ \* the chain document arrives
           \E body \in {ChainDocument(url)} : ChainArrives(url, body)
        \/ \* a body that is no chain document arrives: it is cached (line 255)
           \* before calculateMaxDepth throws (line 258)
           \E body \in {NullBody, NoChainBody} :
             /\ faults < MaxFaults
             /\ faults' = faults + 1
             /\ evolutionChainDataCache' = CachePut(evolutionChainDataCache, url, body)
             /\ evolutionChainCache' = evolutionChainCache
             /\ chainCalls' = [chainCalls EXCEPT ![url] = Append(@, "malformed")]
             /\ \E record \in {MapRecord(pokemon, movePool[1], NULL)} :
                  FinishSpecies(record, "ok", url, "malformed", FALSE)
        \/ \* the request fails: the catch of line 262
           /\ faults < MaxFaults
           /\ faults' = faults + 1
           /\ UNCHANGED <<evolutionChainDataCache, evolutionChainCache>>
           /\ chainCalls' = [chainCalls EXCEPT ![url] = Append(@, "error")]
           /\ \E record \in {MapRecord(pokemon, movePool[1], NULL)} :
                FinishSpecies(record, "ok", url, "error", FALSE)
  /\ UNCHANGED <<seedVars, selector, exitCode, generations, speciesList, i, resolvedName,
                 speciesInfo>>
  /\ UNCHANGED fileVars

\* A mutant: the loop steps over every other species.
NextIndex_SkipOne(k) == k + 2

\* A mutant: the second species of a roster is taken again and again.
NextIndex_Repeat(k) == IF k = 1 THEN 1 ELSE k + 1

\* i++, line 512
NextIndex(k) == k + 1

\* await sleep(75), line 533, and the i++ of the loop
SleepBetweenSpecies ==
  /\ pc = "sleep2"
  /\ i' = NextIndex(i)
  /\ pc' = "resolve"
  /\ UNCHANGED <<seedVars, selector, exitCode, generations, genIdx, allSpecies, faults,
                 speciesList, successCount, errorCount, resolvedName, speciesInfo,
                 pokemon, movePool, speciesLog, rosterLog>>
  /\ UNCHANGED <<cacheVars, fileVars>>

----------------------------------------------------------------------------
(* main(): merge and persist, lines 559-609                                 *)

\* A mutant: every run is merged into the existing file.
IsSingleGeneration_Always(gens) == Len(gens) >= 1

\* generations.length === 1, line 563
IsSingleGeneration(gens) == Len(gens) = 1

\* A mutant: the filter keeps every existing record.
FilterOtherGenerations_KeepAll(existing, g) == existing

\* A mutant: the filter keeps the records of the targeted generation.
FilterOtherGenerations_Inverted(existing, g) ==
  SelectSeq(existing, LAMBDA s : s.generation = g)

\* existingSpecies.filter(s => s.generation !== generations[0]), line 577
FilterOtherGenerations(existing, g) ==
  SelectSeq(existing, LAMBDA s : s.generation # g)

\* A mutant: the new records are left out of the merge.
MergeGeneration_DropNew(existing, all, g) ==
  SortSpecies(FilterOtherGenerations(existing, g))

\* A mutant: nothing is filtered out before the new records are added.
MergeGeneration_KeepExisting(existing, all, g) == SortSpecies(existing \o all)

\* [...filtered, ...allSpecies].sort(...), lines 580-582
MergeGeneration(existing, all, g) ==
  SortSpecies(FilterOtherGenerations(existing, g) \o all)

\* A write that failed leaves the file as it was, or truncated / partly written.
AfterFailedWrite == {file, GarbageFile}

runVars == <<seedVars, selector, generations, genIdx, allSpecies, faults>>

\* await fs.mkdir(dirname, {recursive: true}), line 560; a rejection leaves
\* main() and reaches the catch of line 606.
Mkdir ==
  /\ pc = "mkdir"
  /\ \/ /\ pc' = IF IsSingleGeneration(generations) THEN "readFile" ELSE "writeFull"
        /\ exitCode' = exitCode
     \/ /\ pc' = "exit"
        /\ exitCode' = 1
  /\ UNCHANGED <<runVars, cacheVars, fileVars, loopVars>>

\* await fs.readFile and JSON.parse, lines 568-574, then the filter and the
\* merge, lines 577-582 (a parsed value that is no array makes filter throw).
ReadFile ==
  /\ pc = "readFile"
  /\ readCount' = readCount + 1
  /\ \/ \* the file is read and parsed
        /\ file.kind = "array"
        /\ existingSpecies' = file.records
        /\ merged' = MergeGeneration(file.records, allSpecies, generations[1])
        /\ pc' = "writeMerged"
     \/ \* the file holds JSON that is no array: the catch of line 589
        /\ file.kind = "object"
        /\ UNCHANGED <<existingSpecies, merged>>
        /\ pc' = "writeFallback"
     \/ \* no file, no JSON, or the read fails: the catch of line 571
        /\ existingSpecies' = <<>>
        /\ merged' = MergeGeneration(<<>>, allSpecies, generations[1])
        /\ pc' = "writeMerged"
  /\ UNCHANGED <<exitCode, file, file0, writeLog>>
  /\ UNCHANGED <<runVars, cacheVars, loopVars>>

\* await fs.writeFile(outputPath, JSON.stringify(merged)), line 584
WriteMerged ==
  /\ pc = "writeMerged"
  /\ \/ /\ file' = ArrayFile(merged)
        /\ writeLog' = Append(writeLog, "ok")
        /\ pc' = "done"
        /\ exitCode' = 0
     \/ /\ file' \in AfterFailedWrite
        /\ writeLog' = Append(writeLog, "failed")
        /\ pc' = "writeFallback"
        /\ exitCode' = exitCode
  /\ UNCHANGED <<file0, readCount, existingSpecies, merged>>
  /\ UNCHANGED <<runVars, cacheVars, loopVars>>

\* await fs.writeFile(outputPath, JSON.stringify(allSpecies)), line 591
WriteFallback ==
  /\ pc = "writeFallback"
  /\ \/ /\ file' = ArrayFile(allSpecies)
        /\ writeLog' = Append(writeLog, "ok")
        /\ pc' = "done"
        /\ exitCode' = 0
     \/ /\ file' \in AfterFailedWrite
        /\ writeLog' = Append(writeLog, "failed")
        /\ pc' = "exit"
        /\ exitCode' = 1
  /\ UNCHANGED <<file0, readCount, existingSpecies, merged>>
  /\ UNCHANGED <<runVars, cacheVars, loopVars>>

\* await fs.writeFile(outputPath, JSON.stringify(allSpecies)), line 598
WriteFull ==
  /\ pc = "writeFull"
  /\ \/ /\ file' = ArrayFile(allSpecies)
        /\ writeLog' = Append(writeLog, "ok")
        /\ pc' = "done"
        /\ exitCode' = 0
     \/ /\ file' \in AfterFailedWrite
        /\ writeLog' = Append(writeLog, "failed")
        /\ pc' = "exit"
        /\ exitCode' = 1
  /\ UNCHANGED <<file0, readCount, existingSpecies, merged>>
  /\ UNCHANGED <<runVars, cacheVars, loopVars>>

Next ==
  \/ ParseArgs
  \/ RosterFetch
  \/ ResolveFetch
  \/ SleepAfterResolve
  \/ FormFetch
  \/ ChainFetch
  \/ SleepBetweenSpecies
  \/ Mkdir
  \/ ReadFile
  \/ WriteMerged
  \/ WriteFallback
  \/ WriteFull

Spec == Init /\ [][Next]_vars

\* Every await of main() settles: each request is answered or times out after
\* 10 s, each timer fires, each file operation completes.
FairSpec == Spec /\ WF_vars(Next)

----------------------------------------------------------------------------
(* The merge of lines 576-582 on its own: MergeSpec draws an existing       *)
(* dataset, a generation and a list of new records of that generation, and  *)
(* merges the new records into the dataset twice in a row.                  *)

IsSortedById(list) ==
  \A k \in 1..(Len(list) - 1) :
    parseInt(list[k].species_id) <= parseInt(list[k + 1].species_id)

Count(r, list) == Cardinality({k \in 1..Len(list) : list[k] = r})

\* Records of two generations, with ids shared across generations and two
\* versions of one record.
MergeRecords ==
  { StoredRecord(1, bu, 1),
    [StoredRecord(1, bu, 1) EXCEPT !.is_starter_candidate = TRUE],
    StoredRecord(1000, ee, 1),
    StoredRecord(1, iv, 2),
    StoredRecord(252, <<"t", "r">>, 2) }

SortedLists(records) ==
  { list \in UNION { [1..n -> records] : n \in 0..MaxMergeLen } : IsSortedById(list) }

MergeInit ==
  /\ generations \in {<<1>>, <<2>>}
  /\ existingSpecies \in SortedLists(MergeRecords)
  /\ allSpecies \in SortedLists({r \in MergeRecords : r.generation = generations[1]})
  /\ merged = <<>>
  /\ pc = "merge"
  /\ selector = Selector(toString(generations[1]))
  /\ file = ArrayFile(existingSpecies)
  /\ file0 = file
  /\ InitLocals

mergeFrame == <<seedVars, selector, exitCode, generations, genIdx, allSpecies, faults,
                file0, readCount>>

\* The first run's merge and write.
MergeOnce ==
  /\ pc = "merge"
  /\ merged' = MergeGeneration(existingSpecies, allSpecies, generations[1])
  /\ file' = ArrayFile(merged')
  /\ writeLog' = Append(writeLog, "ok")
  /\ pc' = "merged"
  /\ UNCHANGED <<existingSpecies, mergeFrame, cacheVars, loopVars>>

\* A second run with the same new records: it reads what the first one wrote.
MergeAgain ==
  /\ pc = "merged"
  /\ existingSpecies' = file.records
  /\ merged' = MergeGeneration(file.records, allSpecies, generations[1])
  /\ file' = ArrayFile(merged')
  /\ writeLog' = Append(writeLog, "ok")
  /\ pc' = "remerged"
  /\ UNCHANGED <<mergeFrame, cacheVars, loopVars>>

MergeNext == MergeOnce \/ MergeAgain

MergeSpec == MergeInit /\ [][MergeNext]_vars

----------------------------------------------------------------------------
(* The chain navigator on its own: ChainSpec starts where main() awaits the *)
(* chain document of the only species of a roster, and lets the service     *)
(* answer any chain document of at most MaxChainNodes nodes.                *)

\* What a node of a chain document can be: a name (in either case), a locator
\* with or without a numeric identifier, and the conditions of the edge that
\* leads to it.
NodeKinds ==
  { [name |-> bu, url |-> SpeciesUrl(1), details |-> <<>>],
    [name |-> iv, url |-> SpeciesUrl(2), details |-> <<Detail(<<16>>, "level-up")>>],
    [name |-> <<"B", "u">>, url |-> OpaqueUrl,
     details |-> <<Detail(<<>>, "trade"), Detail(<<32>>, "level-up")>>],
    [name |-> ve, url |-> SpeciesUrl(1000), details |-> <<Detail(<<20>>, "shed")>>] }

\* The trees of exactly n nodes, and the lists of trees of m nodes in all.
RECURSIVE ChainTreesOfSize(_), ChainForestsOfSize(_)
ChainTreesOfSize(n) ==
  { Link(k.name, k.url, k.details, f) : k \in NodeKinds, f \in ChainForestsOfSize(n - 1) }

ChainForestsOfSize(m) ==
  IF m = 0 THEN {<<>>}
  ELSE UNION { { <<t>> \o f : t \in ChainTreesOfSize(k), f \in ChainForestsOfSize(m - k) } :
               k \in 1..m }

ChainTrees == UNION { ChainTreesOfSize(n) : n \in 1..MaxChainNodes }

ChainInit ==
  /\ NoSeedAll
  /\ selector = Selector(<<"1">>)
  /\ generations = <<1>>
  /\ genIdx = 1
  /\ file = AbsentFile
  /\ file0 = file
  /\ exitCode = "running"
  /\ allSpecies = <<>>
  /\ existingSpecies = <<>>
  /\ merged = <<>>
  /\ speciesList \in { <<[name |-> n]>> : n \in {bu, iv, mr} }
  /\ i = 0
  /\ successCount = 0
  /\ errorCount = 0
  /\ resolvedName = speciesList[1].name
  /\ speciesInfo = SpeciesDocument(resolvedName)
  /\ pokemon = PokemonDocument(resolvedName)
  /\ movePool = <<extractLevelUpMoves(pokemon.moves)>>
  /\ evolutionChainDataCache = EmptyCache
  /\ evolutionChainCache = EmptyCache
  /\ faults = 0
  /\ readCount = 0
  /\ writeLog = <<>>
  /\ chainCalls = [u \in ChainUrls |-> <<>>]
  /\ speciesLog = <<LogEntry("ok")>>
  /\ rosterLog = <<>>
  /\ pc = "chainFetch"

\* await axios.get(evolutionChainUrl), line 248, answered with any chain document.
ChainDocumentArrives ==
  /\ pc = "chainFetch"
  /\ \E tree \in ChainTrees :
       ChainArrives(speciesInfo.evolution_chain.url, [id |-> 1, chain |-> tree])
  /\ UNCHANGED <<seedVars, selector, exitCode, generations, speciesList, i, resolvedName,
                 speciesInfo>>
  /\ UNCHANGED fileVars

ChainSpec == ChainInit /\ [][ChainDocumentArrives]_vars

----------------------------------------------------------------------------
(* fetchPokemonData on any move list: the move pool the form document gives *)

\* An entry of a move list: a name and the learn methods of one or two
\* version groups.
RawMoves ==
  { Move(name, methods) :
      name \in {ma, mab, mhy},
      methods \in {<<"level-up">>, <<"machine">>, <<"machine", "level-up">>} }

RawMoveLists == UNION { [1..n -> RawMoves] : n \in 0..MaxMoves }

MoveInit ==
  /\ NoSeedAll
  /\ selector = Selector(<<"1">>)
  /\ generations = <<1>>
  /\ genIdx = 1
  /\ file = AbsentFile
  /\ file0 = file
  /\ exitCode = "running"
  /\ allSpecies = <<>>
  /\ existingSpecies = <<>>
  /\ merged = <<>>
  /\ speciesList = <<[name |-> bu]>>
  /\ i = 0
  /\ successCount = 0
  /\ errorCount = 0
  /\ resolvedName = bu
  /\ speciesInfo = SpeciesDocument(bu)
  /\ pokemon = NULL
  /\ movePool = <<>>
  /\ evolutionChainDataCache = EmptyCache
  /\ evolutionChainCache = EmptyCache
  /\ faults = 0
  /\ readCount = 0
  /\ writeLog = <<>>
  /\ chainCalls = [u \in ChainUrls |-> <<>>]
  /\ speciesLog = <<LogEntry("ok")>>
  /\ rosterLog = <<>>
  /\ pc = "formFetch"

\* await axios.get(pokemon/<pokemonName>), line 399, answered with a form
\* document holding any move list, and the mapping of lines 405-425 up to the
\* await of the chain.
FormDocumentArrives ==
  /\ pc = "formFetch"
  /\ \E moves \in RawMoveLists :
       /\ pokemon' = [PokemonDocument(resolvedName) EXCEPT !.moves = moves]
       /\ movePool' = <<extractLevelUpMoves(moves)>>
  /\ pc' = "chainFetch"
  /\ UNCHANGED <<seedVars, selector, exitCode, generations, genIdx, allSpecies, faults,
                 speciesList, i, successCount, errorCount, resolvedName,
                 speciesInfo, speciesLog, rosterLog>>
  /\ UNCHANGED <<cacheVars, fileVars>>

MoveSpec == MoveInit /\ [][FormDocumentArrives]_vars

----------------------------------------------------------------------------
(* seed_all.ts: the three seed scripts run one after the other              *)

\* const scripts, lines 23-27
scripts == <<"seed_pokedex", "seed_moves", "seed_items">>

\* What a child process may have done when exec calls back: how it ended
\* (exit code 0, a non-zero exit code, killed by a signal, or killed by exec
\* once its output exceeded maxBuffer) and what it wrote.
ChildResults ==
  [ended : {"exit0", "exit1", "signal", "maxBuffer"},
   stdout : {"", "text"},
   stderr : {"", "ExperimentalWarning", "text"}]

\* A mutant: exec's promise resolves however the child ended.
ExecResolves_Always(result) == TRUE

\* promisify(exec): the promise resolves when the child exited with code 0 and
\* rejects otherwise, line 40.
ExecResolves(result) == result.ended = "exit0"

\* The lines runSeedScript prints from the child's output, lines 46-56 and
\* 68-75.
Shown(result) ==
  IF ExecResolves(result)
  THEN [stdout |-> result.stdout # "",
        stderr |-> result.stderr \notin {"", "ExperimentalWarning"}]
  ELSE [stdout |-> result.stdout # "", stderr |-> result.stderr # ""]

SeedEntry(name) == [name |-> name, result |-> "running", shown |-> NULL]

pokedexVars == << selector, pc, exitCode, generations, genIdx, speciesList, i,
                  successCount, errorCount, resolvedName, speciesInfo, pokemon,
                  movePool, allSpecies, evolutionChainDataCache,
                  evolutionChainCache, file, existingSpecies, merged, faults,
                  file0, readCount, writeLog, chainCalls, speciesLog, rosterLog >>

SeedInit ==
  /\ seedPc = "start"
  /\ seedIdx = 1
  /\ seedExit = "running"
  /\ seedLog = <<>>
  /\ selector = NoSelector
  /\ file = AbsentFile
  /\ file0 = file
  /\ pc = "start"
  /\ generations = <<>>
  /\ allSpecies = <<>>
  /\ existingSpecies = <<>>
  /\ merged = <<>>
  /\ exitCode = "running"
  /\ genIdx = 1
  /\ speciesList = <<>>
  /\ i = 0
  /\ successCount = 0
  /\ errorCount = 0
  /\ resolvedName = <<>>
  /\ speciesInfo = NULL
  /\ pokemon = NULL
  /\ movePool = <<>>
  /\ evolutionChainDataCache = EmptyCache
  /\ evolutionChainCache = EmptyCache
  /\ faults = 0
  /\ readCount = 0
  /\ writeLog = <<>>
  /\ chainCalls = [u \in ChainUrls |-> <<>>]
  /\ speciesLog = <<>>
  /\ rosterLog = <<>>

\* main() up to the first await: the first pass of the loop of line 93 calls
\* runSeedScript, which starts the child process, line 40.
SeedStart ==
  /\ seedPc = "start"
  /\ seedPc' = "exec"
  /\ seedLog' = <<SeedEntry(scripts[seedIdx])>>
  /\ UNCHANGED <<seedIdx, seedExit, pokedexVars>>

\* await execAsync(...) settles, line 40: runSeedScript prints and returns, and
\* the loop starts the next script or main() ends (lines 45-59, 93-102); or
\* the catch of line 60 prints and calls process.exit(1), line 78.
ExecSettles ==
  /\ seedPc = "exec"
  /\ \E result \in ChildResults :
       LET settled == [seedLog EXCEPT ![Len(seedLog)] =
                         [@ EXCEPT !.result = result.ended, !.shown = Shown(result)]]
       IN IF ExecResolves(result)
          THEN IF seedIdx < Len(scripts)
               THEN /\ seedIdx' = seedIdx + 1
                    /\ seedLog' = Append(settled, SeedEntry(scripts[seedIdx + 1]))
                    /\ seedPc' = "exec"
                    /\ seedExit' = seedExit
               ELSE /\ seedIdx' = seedIdx
                    /\ seedLog' = settled
                    /\ seedPc' = "done"
                    /\ seedExit' = 0
          ELSE /\ seedIdx' = seedIdx
               /\ seedLog' = settled
               /\ seedPc' = "exit"
               /\ seedExit' = 1
  /\ UNCHANGED pokedexVars

SeedNext ==
  \/ SeedStart
  \/ ExecSettles

SeedSpec == SeedInit /\ [][SeedNext]_vars

----------------------------------------------------------------------------
(* Properties                                                               *)

RunEnded == pc \in {"done", "exit"}

SingleGenerationRun == selector.given /\ Len(generations) = 1

FullRun == ~selector.given

\* C1: after a single-generation run for G, however it ended, every record of
\* the file as it was before the run whose generation is not G is still in the
\* file, as many times as before.
C1_OtherGenerationsKept ==
  (SingleGenerationRun /\ RunEnded /\ file0.kind = "array") =>
    \A r \in Range(file0.records) :
      r.generation # generations[1] =>
        /\ file.kind = "array"
        /\ Count(r, file.records) = Count(r, file0.records)

\* C2: merging the same new records of generation G a second time gives the
\* dataset the first merge gave.
C2_MergeIdempotent ==
  pc = "remerged" => merged = existingSpecies

C2_Witness ==
  /\ pc = "remerged"
  /\ Len(allSpecies) >= 2
  /\ \E k \in 1..Len(file0.records) : file0.records[k].generation = generations[1]
  /\ \E k \in 1..Len(file0.records) : file0.records[k].generation # generations[1]

\* C3: when a run completes, the file holds an array sorted ascending by
\* parseInt(species_id).
C3_PersistedSorted ==
  pc = "done" => file.kind = "array" /\ IsSortedById(file.records)

C3_Witness ==
  /\ pc = "done"
  /\ SingleGenerationRun
  /\ Len(existingSpecies) >= 2
  /\ Len(allSpecies) >= 2
  /\ file = ArrayFile(merged)
  /\ merged # FilterOtherGenerations(existingSpecies, generations[1]) \o allSpecies

\* C4: the merge for G yields the existing records of the other generations
\* plus all the new records, each as many times as it was given, so its length
\* is (existing length - existing records of G) + (number of new records).
C4_MergeContent ==
  pc = "merged" =>
    LET g == generations[1]
        inG == {k \in 1..Len(existingSpecies) : existingSpecies[k].generation = g}
    IN /\ Len(merged) = (Len(existingSpecies) - Cardinality(inG)) + Len(allSpecies)
       /\ \A r \in Range(existingSpecies) \cup Range(allSpecies) \cup Range(merged) :
            Count(r, merged) =
              (IF r.generation # g THEN Count(r, existingSpecies) ELSE 0)
              + Count(r, allSpecies)

C4_Witness ==
  /\ pc = "merged"
  /\ Len(allSpecies) >= 1
  /\ \E k \in 1..Len(existingSpecies) :
       /\ existingSpecies[k].generation = generations[1]
       /\ existingSpecies[k] \notin Range(allSpecies)
  /\ \E k \in 1..Len(existingSpecies) : existingSpecies[k].generation # generations[1]

\* C5: a full run never reads the file, and when it completes the file holds
\* exactly the records this run produced: one per species that was recorded,
\* none of the records the file held before.
C5_FullRunReplaces ==
  FullRun =>
    /\ readCount = 0
    /\ pc = "done" =>
         /\ file = ArrayFile(allSpecies)
         /\ Len(file.records) =
              Cardinality({k \in 1..Len(speciesLog) : speciesLog[k].recorded})
         /\ \A r \in Range(file.records) :
              \E k \in 1..Len(speciesLog) :
                /\ speciesLog[k].recorded
                /\ r.display_name = capitalize(speciesLog[k].name)
                /\ r.generation = speciesLog[k].gen

C5_Witness ==
  /\ FullRun
  /\ pc = "done"
  /\ file0 = ArrayFile(StoredDataset)
  /\ Len(file.records) >= 2
  /\ \E r \in Range(file0.records) : r \notin Range(file.records)

\* The species whose processing is over, and, among them, those that looked
\* the chain reference u up.
Finished == {k \in 1..Len(speciesLog) : speciesLog[k].finished}

Lookups(u) == {k \in Finished : speciesLog[k].chainUrl = u}

\* By how much the counters moved while species k was processed.
CountBefore(k, counter) ==
  IF speciesLog[k].index = 0 THEN 0
  ELSE IF counter = "error" THEN speciesLog[k - 1].errorCount
  ELSE speciesLog[k - 1].successCount

ErrorIncrement(k) == speciesLog[k].errorCount - CountBefore(k, "error")

SuccessIncrement(k) == speciesLog[k].successCount - CountBefore(k, "success")

\* C6 as stated: every chain reference that was looked up caused exactly one
\* network call, whatever the outcome of the first call.
C6_ExactlyOneCall ==
  \A u \in ChainUrls : Lookups(u) # {} => Len(chainCalls[u]) = 1

\* C6 as amended: a lookup issues a call exactly when no earlier call for the
\* reference was answered.  So a reference that was looked up caused at least
\* one call, at most one call per lookup, every call but the last failed with
\* a request error, and once a call is answered (well-formed body or not) the
\* later lookups issue none.
C6_OneAnsweredCall ==
  \A u \in ChainUrls :
    LET calls == chainCalls[u]
    IN /\ Lookups(u) = {} => calls = <<>>
       /\ Lookups(u) # {} => Len(calls) >= 1
       /\ Len(calls) <= Cardinality(Lookups(u))
       /\ \A n \in 1..(Len(calls) - 1) : calls[n] = "error"
       /\ (Len(calls) >= 1 /\ calls[1] # "error") => Len(calls) = 1
       /\ (\A n \in 1..Len(calls) : calls[n] = "error") =>
            Len(calls) = Cardinality(Lookups(u))

C6_Witness ==
  \E u \in ChainUrls :
    /\ Cardinality(Lookups(u)) = 3
    /\ chainCalls[u] = <<"error", "ok">>

\* C7: when the calls for a chain reference have all failed (request error or
\* malformed body), every lookup of the reference returned no value and every
\* species that looked it up has a record, with no evolutions and not a
\* starter candidate.
C7_FailedChainIsUnknown ==
  \A u \in ChainUrls :
    (/\ chainCalls[u] # <<>>
     /\ \A n \in 1..Len(chainCalls[u]) : chainCalls[u][n] \in {"error", "malformed"})
    => \A k \in Lookups(u) :
         /\ ~speciesLog[k].chainValue
         /\ speciesLog[k].record # NULL
         /\ speciesLog[k].record.evolutions = <<>>
         /\ ~speciesLog[k].record.is_starter_candidate

\* What C8 calls a failure of species k.
SpeciesFetchFailed(k) == speciesLog[k].species \in {"error", "malformed"}
FormFetchFailed(k) == speciesLog[k].form # "ok"
ChainFetchFailed(k) == speciesLog[k].chain \in {"error", "malformed"}

SpeciesFailureSeen ==
  \E k \in 1..Len(speciesLog) :
    \/ SpeciesFetchFailed(k)
    \/ speciesLog[k].form \notin {"ok", "pending"}
    \/ ChainFetchFailed(k)
    \/ speciesLog[k].finished /\ speciesLog[k].record = NULL

ReachedPersist == genIdx > Len(generations) /\ pc # "start"

\* No species was left unprocessed: while the loops run the process has not
\* exited, the species of the current roster before position i have all been
\* processed, in roster order, and once the run is at Merge & Persist every
\* entry of every roster that was fetched has been processed.
EverySpeciesProcessed ==
  /\ (SpeciesFailureSeen /\ ~ReachedPersist) =>
       /\ pc \notin {"exit", "done"}
       /\ exitCode = "running"
  /\ \A k \in 1..Len(speciesLog) : ~speciesLog[k].aborted
  /\ pc \in {"resolve", "sleep1", "formFetch", "chainFetch", "sleep2"} =>
       \A j \in 0..(i - 1) :
         \E k \in Finished :
           /\ speciesLog[k].gen = gen
           /\ speciesLog[k].index = j
           /\ speciesLog[k].name = speciesList[j + 1].name
  /\ ReachedPersist =>
       \A n \in 1..Len(rosterLog) :
         \A j \in 0..(rosterLog[n].rosterLen - 1) :
           \E k \in Finished :
             speciesLog[k].gen = rosterLog[n].gen /\ speciesLog[k].index = j

\* C9: a failure while a species is processed never aborts the run: every
\* later species of the roster is still processed, and the run goes on to
\* Merge & Persist.
C9_FailureNeverAborts ==
  /\ []EverySpeciesProcessed
  /\ SpeciesFailureSeen ~> (ReachedPersist /\ EverySpeciesProcessed)

C9_Witness ==
  /\ pc = "mkdir"
  /\ Len(speciesLog) >= 3
  /\ speciesLog[1].form = "malformed"
  /\ speciesLog[1].record = NULL
  /\ \A k \in 2..Len(speciesLog) : speciesLog[k].finished /\ speciesLog[k].record # NULL

\* The depth of a tree: 1 for a leaf, 1 + the deepest child otherwise.
RECURSIVE TreeDepth(_)
TreeDepth(node) ==
  IF Len(node.evolves_to) = 0 THEN 1
  ELSE 1 + (CHOOSE d \in {TreeDepth(node.evolves_to[k]) : k \in 1..Len(node.evolves_to)} :
              \A k \in 1..Len(node.evolves_to) : TreeDepth(node.evolves_to[k]) <= d)

\* C10: a record of species X is a starter candidate exactly when X's chain
\* is known (the lookup returned the chain), its depth is at least 3 and its
\* root's name is X up to case.
C10_StarterCandidate ==
  \A k \in Finished :
    speciesLog[k].record # NULL =>
      LET e == speciesLog[k]
          tree == ChainDocument(SpeciesDocument(e.name).evolution_chain.url).chain
      IN e.record.is_starter_candidate <=>
           /\ e.chainValue
           /\ TreeDepth(tree) >= 3
           /\ toLowerCase(tree.species.name) = toLowerCase(e.name)

C10_Witness ==
  /\ \E k \in Finished :
       /\ speciesLog[k].name = bu
       /\ speciesLog[k].record # NULL
       /\ speciesLog[k].record.is_starter_candidate
  /\ \E k \in Finished :
       /\ speciesLog[k].name = iv
       /\ speciesLog[k].chainValue
       /\ speciesLog[k].record # NULL
       /\ ~speciesLog[k].record.is_starter_candidate

\* C11: the depth computed for a chain document is 1 for a leaf and 1 + the
\* largest depth of a child otherwise: 3 for a linear chain A -> B -> C and 2
\* for a branching chain A -> {B, C}.
C11_DepthIsMaxOverBranches ==
  \A u \in DOMAIN evolutionChainCache :
    LET tree == evolutionChainDataCache[u].chain
        depth == evolutionChainCache[u]
        IsLeaf(node) == Len(node.evolves_to) = 0
    IN /\ depth = TreeDepth(tree)
       /\ IsLeaf(tree) => depth = 1
       /\ (/\ Len(tree.evolves_to) = 1
           /\ Len(tree.evolves_to[1].evolves_to) = 1
           /\ IsLeaf(tree.evolves_to[1].evolves_to[1])) => depth = 3
       /\ (/\ Len(tree.evolves_to) = 2
           /\ IsLeaf(tree.evolves_to[1])
           /\ IsLeaf(tree.evolves_to[2])) => depth = 2

C11_Witness ==
  \E u \in DOMAIN evolutionChainCache :
    LET tree == evolutionChainDataCache[u].chain
    IN /\ Len(tree.evolves_to) = 2
       /\ Len(tree.evolves_to[1].evolves_to) = 0
       /\ Len(tree.evolves_to[2].evolves_to) = 1
       /\ evolutionChainCache[u] = 3

\* The resolver has returned for the current species and main() has not yet
\* moved on to the next one; the outcome of its species fetch.
Resolved == pc \in {"sleep1", "formFetch", "chainFetch"}

CurrentSpeciesKind == speciesLog[Len(speciesLog)].species

\* C12: when the species fetch succeeded, the resolved form name is the name
\* of the first variety flagged default if there is one, otherwise the name
\* of the first listed variety, otherwise (no variety) the input name.
C12_ResolvedFormName ==
  (Resolved /\ CurrentSpeciesKind \in {"ok", "nodefault", "novarieties", "nochain"}) =>
    LET received ==
          CASE CurrentSpeciesKind = "nodefault" -> NoDefaultVariety(SpeciesDocument(speciesName))
            [] CurrentSpeciesKind = "novarieties" -> EmptyVarieties(SpeciesDocument(speciesName))
            [] OTHER -> SpeciesDocument(speciesName)
        vs == received.varieties
        flagged == {k \in 1..Len(vs) : vs[k].is_default}
    IN /\ flagged # {} =>
            \E k \in flagged : /\ \A m \in flagged : k <= m
                                /\ resolvedName = vs[k].pokemon.name
       /\ (flagged = {} /\ Len(vs) > 0) => resolvedName = vs[1].pokemon.name
       /\ Len(vs) = 0 => resolvedName = speciesName
       /\ (speciesName = ve /\ CurrentSpeciesKind \in {"ok", "nochain"}) => resolvedName = ven
       /\ (speciesName = ve /\ CurrentSpeciesKind = "nodefault") => resolvedName = vex

C12_Witness ==
  /\ pc = "formFetch"
  /\ speciesName = ve
  /\ CurrentSpeciesKind = "ok"
  /\ resolvedName = ven
  /\ speciesInfo.varieties[1].pokemon.name = vex

\* C13 as stated: when the species fetch succeeded with an empty variety
\* list, the resolver returns the input name and no species metadata, and the
\* chain of the species is never looked up.
C13_EmptyVarietiesNoMetadata ==
  /\ (Resolved /\ CurrentSpeciesKind = "novarieties") =>
       resolvedName = speciesName /\ speciesInfo = NULL
  /\ \A k \in Finished : speciesLog[k].species = "novarieties" => speciesLog[k].chainUrl = ""

\* C13 as amended: with an empty variety list the resolver returns the input
\* name together with the species metadata it received, chain reference
\* included; when the form of that name is then fetched, the chain of the
\* species is looked up as for any other species.
C13_EmptyVarietiesKeepMetadata ==
  /\ (Resolved /\ CurrentSpeciesKind = "novarieties") =>
       /\ resolvedName = speciesName
       /\ speciesInfo = EmptyVarieties(SpeciesDocument(speciesName))
       /\ speciesInfo.evolution_chain = SpeciesDocument(speciesName).evolution_chain
  /\ \A k \in Finished :
       (speciesLog[k].species = "novarieties" /\ speciesLog[k].form = "ok") =>
         /\ speciesLog[k].chainUrl = SpeciesDocument(speciesLog[k].name).evolution_chain.url
         /\ speciesLog[k].chain \in {"ok", "hit", "error", "malformed"}

C13_Witness ==
  \E k \in Finished :
    /\ speciesLog[k].species = "novarieties"
    /\ speciesLog[k].form = "ok"
    /\ speciesLog[k].chainValue
    /\ speciesLog[k].record # NULL
    /\ speciesLog[k].record.evolutions # <<>>

\* C14: the resolver never raises: no species is abandoned while it is
\* resolved, and whatever the species fetch gave, the resolver returned a
\* non-empty name, which after a failed fetch (error response, timeout, body
\* without a variety list) is the input name, with no species metadata.
C14_ResolverNeverRaises ==
  /\ \A k \in 1..Len(speciesLog) :
       ~(speciesLog[k].aborted /\ speciesLog[k].form = "pending")
  /\ pc = "resolve" => \A k \in 1..Len(speciesLog) : speciesLog[k].finished
  /\ Resolved =>
       /\ Len(resolvedName) > 0
       /\ CurrentSpeciesKind \in {"error", "malformed"} =>
            resolvedName = speciesName /\ speciesInfo = NULL

C14_Witness ==
  /\ pc = "sleep1"
  /\ CurrentSpeciesKind = "malformed"
  /\ resolvedName = speciesName
  /\ speciesInfo = NULL

\* C15: a species has no record exactly when its form-attribute fetch
\* failed; degraded species data and a failed or malformed chain document
\* never cost a record.
C15_DroppedIffFormFails ==
  \A k \in Finished : speciesLog[k].record = NULL <=> FormFetchFailed(k)

\* The nodes of a tree in depth-first pre-order.
RECURSIVE PreOrder(_)
PreOrder(node) ==
  LET RECURSIVE below(_)
      below(k) == IF k > Len(node.evolves_to) THEN <<>>
                  ELSE PreOrder(node.evolves_to[k]) \o below(k + 1)
  IN <<node>> \o below(1)

\* The positions, in pre-order, of the nodes named as the species (up to case).
NamedAs(tree, name) ==
  {p \in 1..Len(PreOrder(tree)) :
     toLowerCase(PreOrder(tree)[p].species.name) = toLowerCase(name)}

\* The species' own node: the first of them.
OwnNode(tree, name) ==
  PreOrder(tree)[CHOOSE p \in NamedAs(tree, name) : \A q \in NamedAs(tree, name) : p <= q]

\* The identifiers the locators of the model embed, and an identifier written
\* with at least three digits.
LocatorIds == {1, 2, 3, 122, 134, 1000}

ZeroPadded3(n) ==
  IF n < 10 THEN <<"0", "0">> \o toString(n)
  ELSE IF n < 100 THEN <<"0">> \o toString(n)
  ELSE toString(n)

\* The finished species that have a record made with a chain document.
MappedWithChain ==
  {k \in Finished : speciesLog[k].chainValue /\ speciesLog[k].record # NULL}

ChainTreeOf(k) == evolutionChainDataCache[speciesLog[k].chainUrl].chain

\* C16: the evolutions of a record are the outgoing edges of the species' own
\* node (the first node in pre-order named as the species, up to case), one
\* entry per edge in edge order; the target id is the number embedded in the
\* target's locator, zero-padded to 3 digits, or the target's name when the
\* locator embeds none; there is no entry when no node is named as the species.
C16_EvolutionsOfOwnNode ==
  \A k \in MappedWithChain :
    LET tree == ChainTreeOf(k)
        evolutions == speciesLog[k].record.evolutions
    IN IF NamedAs(tree, speciesLog[k].name) = {} THEN evolutions = <<>>
       ELSE LET edges == OwnNode(tree, speciesLog[k].name).evolves_to
            IN /\ Len(evolutions) = Len(edges)
               /\ \A e \in 1..Len(edges) :
                    LET target == edges[e].species
                        id == evolutions[e].target_species_id
                    IN /\ \A n \in LocatorIds :
                            target.url = SpeciesUrl(n) => id = ZeroPadded3(n)
                       /\ (\A n \in LocatorIds : target.url # SpeciesUrl(n)) =>
                            id = target.name
                       /\ target.url = SpeciesUrl(2) => id = <<"0", "0", "2">>
                       /\ target.url = SpeciesUrl(1000) => id = <<"1", "0", "0", "0">>

C16_Witness ==
  \E k \in MappedWithChain :
    /\ speciesLog[k].name = bu
    /\ ChainTreeOf(k).species.name = iv
    /\ Cardinality(NamedAs(ChainTreeOf(k), bu)) = 2
    /\ OwnNode(ChainTreeOf(k), bu).species.name = <<"B", "u">>
    /\ Len(speciesLog[k].record.evolutions) = 2
    /\ speciesLog[k].record.evolutions[1].target_species_id = <<"1", "0", "0", "0">>
    /\ speciesLog[k].record.evolutions[2].target_species_id = <<"B", "u">>

\* C17: in every evolution entry, the minimum level is null when the first
\* condition of the edge is not a level-up, the trigger is "unknown" exactly
\* when the edge has no condition, and otherwise the trigger is that of the
\* first condition.
C17_FirstConditionOnly ==
  \A k \in MappedWithChain :
    NamedAs(ChainTreeOf(k), speciesLog[k].name) # {} =>
      LET edges == OwnNode(ChainTreeOf(k), speciesLog[k].name).evolves_to
          evolutions == speciesLog[k].record.evolutions
      IN \A e \in 1..Len(edges) :
           LET conditions == edges[e].evolution_details
           IN /\ evolutions[e].trigger = "unknown" <=> Len(conditions) = 0
              /\ Len(conditions) > 0 =>
                   /\ evolutions[e].trigger = conditions[1].trigger.name
                   /\ conditions[1].trigger.name # "level-up" =>
                        evolutions[e].min_level = <<>>

\* The text after "=" is a decimal integer between 1 and 9.
IsIntegerInRange(text) ==
  /\ Len(text) >= 1
  /\ \A k \in 1..Len(text) : IsDigit(text[k])
  /\ DigitsValue(text) \in 1..9

\* Nothing was fetched and the dataset file was neither read nor written.
NothingTouched ==
  /\ rosterLog = <<>>
  /\ speciesLog = <<>>
  /\ \A u \in ChainUrls : chainCalls[u] = <<>>
  /\ faults = 0
  /\ readCount = 0
  /\ writeLog = <<>>
  /\ file = file0

\* C18: when a selector is given whose value is not an integer in 1..9, the
\* process exits with code 1 before any fetch and without reading or writing
\* the dataset file; a run that completes exits with code 0.
C18_InvalidSelectorExits ==
  /\ (selector.given /\ ~IsIntegerInRange(selector.text)) =>
       /\ pc \in {"start", "exit"}
       /\ pc = "exit" => exitCode = 1
       /\ NothingTouched
  /\ pc = "done" => exitCode = 0

\* C19: a run in which the output directory could not be created, or in which
\* a write of the dataset file failed, ends with a non-zero exit code, in both
\* modes: a run that ends with code 0 has written the file and no write of it
\* has failed.
C19_FailedWriteIsFatal ==
  /\ (RunEnded /\ \E k \in 1..Len(writeLog) : writeLog[k] = "failed") =>
       /\ pc = "exit"
       /\ exitCode = 1
  /\ (RunEnded /\ ReachedPersist /\ writeLog = <<>>) =>
       /\ pc = "exit"
       /\ exitCode = 1

\* The species whose processing has begun and is not over.
InFlight == {k \in 1..Len(speciesLog) : ~speciesLog[k].finished}

\* main() is past the loops: Merge & Persist has begun.
AtPersist ==
  pc \in {"mkdir", "readFile", "writeMerged", "writeFallback", "writeFull", "done"}

\* C20: processing is strictly sequential. At most one species is in flight, the
\* last one begun, and only while main() awaits its form or chain fetch; the
\* species of a generation are taken in roster order, without gap, each one
\* processed (record appended or failure counted) before the resolution fetch
\* of the next is issued; and Merge & Persist begins only when every species
\* of every roster that was fetched has been processed.
C20_StrictlySequential ==
  /\ Cardinality(InFlight) <= 1
  /\ InFlight \subseteq {Len(speciesLog)}
  /\ InFlight # {} <=> pc \in {"sleep1", "formFetch", "chainFetch"}
  /\ \A k \in 1..Len(speciesLog) :
       /\ speciesLog[k].index =
            IF k = 1 \/ speciesLog[k - 1].gen # speciesLog[k].gen THEN 0
            ELSE speciesLog[k - 1].index + 1
       /\ k > 1 => speciesLog[k - 1].gen <= speciesLog[k].gen
       /\ speciesLog[k].index < Len(GenerationRoster(speciesLog[k].gen))
       /\ speciesLog[k].name =
            GenerationRoster(speciesLog[k].gen)[speciesLog[k].index + 1].name
  /\ \A k \in Finished :
       /\ ~speciesLog[k].aborted
       /\ speciesLog[k].recorded \/ ErrorIncrement(k) = 1
  /\ pc = "resolve" =>
       Cardinality({k \in Finished : speciesLog[k].gen = gen}) = i
  /\ (AtPersist \/ (pc = "exit" /\ ReachedPersist)) =>
       /\ InFlight = {}
       /\ \A n \in 1..Len(rosterLog) :
            /\ rosterLog[n].rosterLen = Len(GenerationRoster(rosterLog[n].gen))
            /\ Cardinality({k \in Finished : speciesLog[k].gen = rosterLog[n].gen})
                 = rosterLog[n].rosterLen

C20_Witness ==
  /\ pc = "done"
  /\ Len(speciesLog) >= 3
  /\ speciesLog[1].name = iv /\ speciesLog[2].name = bu /\ speciesLog[3].name = ve
  /\ \E k \in Finished : ~speciesLog[k].recorded
  /\ \E k \in Finished : speciesLog[k].recorded

\* The positions of main() at which a request to the service is outstanding.
NetworkPositions == {"rosterFetch", "resolve", "formFetch", "chainFetch"}

\* C21: any two consecutive requests to the service are separated by the
\* delay: when an awaited request settles, the next thing main() awaits is
\* never another request.
C21_CallsSeparatedByDelay ==
  [][~(pc \in NetworkPositions /\ pc' \in NetworkPositions)]_vars

\* The log entries of roster entry j of generation g: one per species request.
EntriesOf(g, j) ==
  {k \in 1..Len(speciesLog) : speciesLog[k].gen = g /\ speciesLog[k].index = j}

\* The species for which a chain request was sent, and the number of chain
\* requests sent in all.
ChainRequested ==
  {k \in 1..Len(speciesLog) : speciesLog[k].chain \in {"ok", "malformed", "error"}}

RECURSIVE SumOfCalls(_)
SumOfCalls(urls) ==
  IF urls = {} THEN 0
  ELSE LET u == CHOOSE v \in urls : TRUE
       IN Len(chainCalls[u]) + SumOfCalls(urls \ {u})

\* C22: no request is sent again. A generation's roster is fetched at most
\* once; a roster entry has one species request and, whatever its outcome, one
\* form request; every chain request belongs to one roster entry, which has at
\* most one; and when the loops are over every entry of every fetched roster
\* has had exactly one species request and one form request.
C22_NoRetry ==
  /\ \A k \in 1..Len(speciesLog) :
       EntriesOf(speciesLog[k].gen, speciesLog[k].index) = {k}
  /\ \A k \in Finished : speciesLog[k].form # "pending"
  /\ \A n, m \in 1..Len(rosterLog) : rosterLog[n].gen = rosterLog[m].gen => n = m
  /\ Len(rosterLog) <= genIdx - 1
  /\ SumOfCalls(ChainUrls) = Cardinality(ChainRequested)
  /\ \A u \in ChainUrls :
       Len(chainCalls[u]) = Cardinality({k \in ChainRequested : speciesLog[k].chainUrl = u})
  /\ ReachedPersist =>
       \A n \in 1..Len(rosterLog) :
         \A j \in 0..(rosterLog[n].rosterLen - 1) :
           /\ Cardinality(EntriesOf(rosterLog[n].gen, j)) = 1
           /\ EntriesOf(rosterLog[n].gen, j) \subseteq Finished

C22_Witness ==
  /\ pc = "done"
  /\ Len(speciesLog) >= 3
  /\ \E k \in Finished : SpeciesFetchFailed(k) /\ speciesLog[k].form = "ok"

\* C23: persistence is one whole-file write per run: fs.writeFile is called at
\* most once, never while a species is being processed or before the loops
\* are over, and after a write that succeeded the file is a whole dataset
\* holding every record of the run.
C23_SingleWholeWrite ==
  /\ Len(writeLog) <= 1
  /\ writeLog # <<>> =>
       /\ ReachedPersist
       /\ InFlight = {}
  /\ (writeLog # <<>> /\ writeLog[Len(writeLog)] = "ok") =>
       /\ file.kind = "array"
       /\ \A k \in 1..Len(allSpecies) : allSpecies[k] \in Range(file.records)

\* s comes strictly before t in lexicographic order of the code units.
LexLess(s, t) ==
  \E p \in 1..(Len(t)) :
    /\ \A q \in 1..(p - 1) : q <= Len(s) /\ s[q] = t[q]
    /\ \/ p = Len(s) + 1
       \/ p <= Len(s) /\ CodeUnit(s[p]) < CodeUnit(t[p])

\* The names of the moves that have a level-up entry.
LevelUpNames(moves) ==
  {moves[k].move.name : k \in
     {m \in 1..Len(moves) :
        \E d \in 1..Len(moves[m].version_group_details) :
          moves[m].version_group_details[d].move_learn_method.name = "level-up"}}

Reversed(seq) == [k \in 1..Len(seq) |-> seq[Len(seq) + 1 - k]]

\* The move lists obtained by permuting the list and, in any of its entries
\* that have several, the version details.
Rearrangements(moves) ==
  LET n == Len(moves)
      perms == {f \in [1..n -> 1..n] : \A a, b \in 1..n : f[a] = f[b] => a = b}
      several == {m \in 1..n : Len(moves[m].version_group_details) > 1}
  IN { [k \in 1..n |->
          IF f[k] \in flipped
          THEN [moves[f[k]] EXCEPT !.version_group_details = Reversed(@)]
          ELSE moves[f[k]]] : f \in perms, flipped \in SUBSET several }

\* The form document is in and its move pool has been extracted.
MovesExtracted == pc = "chainFetch" /\ pokemon # NULL

\* C24: the move pool holds exactly the names of the moves with a level-up
\* entry, each once, in ascending lexicographic order, and every rearrangement
\* of the move list and of the version details gives the same move pool.
C24_MovePoolDeterministic ==
  MovesExtracted =>
    /\ Range(movePool[1]) = LevelUpNames(pokemon.moves)
    /\ Len(movePool[1]) = Cardinality(LevelUpNames(pokemon.moves))
    /\ \A a, b \in 1..Len(movePool[1]) :
         a < b => LexLess(movePool[1][a], movePool[1][b])
    /\ \A other \in Rearrangements(pokemon.moves) :
         extractLevelUpMoves(other) = movePool[1]

C24_Witness ==
  /\ MovesExtracted
  /\ Len(pokemon.moves) = 3
  /\ pokemon.moves[1].move.name = mab
  /\ pokemon.moves[2].move.name = mhy
  /\ pokemon.moves[3].move.name = mab
  /\ movePool[1] = <<mhy, mab>>

\* C25: the tree cache and the depth cache hold the same chain references, and
\* for each of them the stored depth is the maximum depth of the stored tree,
\* also after a chain document with a malformed body was received.
C25_CachesAgree ==
  /\ DOMAIN evolutionChainDataCache = DOMAIN evolutionChainCache
  /\ \A u \in DOMAIN evolutionChainDataCache :
       /\ IsChainDocument(evolutionChainDataCache[u])
       /\ evolutionChainCache[u] = TreeDepth(evolutionChainDataCache[u].chain)

\* C26: when the loop of a generation is over, its success counter plus its
\* failure counter is the roster length, the generation has added as many
\* records to the result list as its success counter says, and each roster
\* entry has contributed at most one record.
C26_CountersAddUp ==
  \A n \in 1..Len(rosterLog) :
    LET g == rosterLog[n].gen
        recorded == {k \in Finished : speciesLog[k].gen = g /\ speciesLog[k].recorded}
    IN /\ rosterLog[n].successCount + rosterLog[n].errorCount = rosterLog[n].rosterLen
       /\ rosterLog[n].rosterLen = Len(GenerationRoster(g))
       /\ Cardinality(recorded) = rosterLog[n].successCount
       /\ Cardinality({p \in 1..Len(allSpecies) : allSpecies[p].generation = g})
            = rosterLog[n].successCount
       /\ \A j \in 0..(rosterLog[n].rosterLen - 1) :
            Cardinality(EntriesOf(g, j) \cap recorded) <= 1

C26_Witness ==
  \E n \in 1..Len(rosterLog) :
    /\ rosterLog[n].rosterLen >= 3
    /\ rosterLog[n].successCount = rosterLog[n].rosterLen - 1
    /\ rosterLog[n].errorCount = 1
    /\ Len(allSpecies) = rosterLog[n].successCount

\* The roster fetch of a single-generation run has failed.
RosterFetchFailed == SingleGenerationRun /\ ReachedPersist /\ rosterLog = <<>>

\* The dataset the file held before the run: none when the file was missing or
\* held no array.
PreviousDataset == IF file0.kind = "array" THEN file0.records ELSE <<>>

\* The file held a dataset and reading it failed.
ReadFailed ==
  /\ readCount > 0
  /\ file0.kind = "array"
  /\ file0.records # <<>>
  /\ existingSpecies = <<>>

\* C27: in a single-generation run for G whose roster fetch fails, no species
\* is processed and no summary is produced; the run goes on to Merge & Persist
\* and, the file operations succeeding, ends with code 0 after one write, the
\* file holding the previous dataset without its generation-G records and
\* nothing else.
C27_FailedRosterStillPersists ==
  RosterFetchFailed =>
    /\ speciesLog = <<>>
    /\ allSpecies = <<>>
    /\ pc \in {"mkdir", "readFile", "writeMerged", "writeFallback", "done", "exit"}
    /\ pc = "exit" => (writeLog = <<>> \/ writeLog[Len(writeLog)] = "failed")
    /\ (pc = "done" /\ writeLog = <<"ok">> /\ ~ReadFailed) =>
         /\ exitCode = 0
         /\ file.kind = "array"
         /\ \A r \in Range(PreviousDataset) \cup Range(file.records) :
              Count(r, file.records) =
                IF r.generation = generations[1] THEN 0
                ELSE Count(r, PreviousDataset)

C27_Witness ==
  /\ RosterFetchFailed
  /\ pc = "done"
  /\ writeLog = <<"ok">>
  /\ ~ReadFailed
  /\ \E r \in Range(PreviousDataset) : r.generation = generations[1]
  /\ Len(file.records) = Len(PreviousDataset) - 1

\* A single-generation run has tried to read a dataset file that is missing,
\* not parseable or unreadable.
TreatedAsEmpty ==
  /\ SingleGenerationRun
  /\ readCount > 0
  /\ file0.kind \in {"absent", "garbage"} \/ ReadFailed

\* The species of this run that have a record.
Recorded == {k \in Finished : speciesLog[k].recorded}

\* C28: in a single-generation run, a dataset file that is missing, unreadable
\* or not parseable counts as an empty dataset: the merge starts from nothing,
\* the run fails only if a write fails, and a run that completes has persisted
\* exactly the records it produced, sorted by numeric species id.
C28_UnreadableFileIsEmpty ==
  TreatedAsEmpty =>
    /\ existingSpecies = <<>>
    /\ pc \in {"writeMerged", "writeFallback", "done", "exit"}
    /\ pc = "exit" => writeLog[Len(writeLog)] = "failed"
    /\ pc = "writeMerged" => Len(merged) = Cardinality(Recorded)
    /\ pc = "done" =>
         /\ exitCode = 0
         /\ file.kind = "array"
         /\ Len(file.records) = Cardinality(Recorded)
         /\ \A k \in Recorded : speciesLog[k].record \in Range(file.records)
         /\ IsSortedById(file.records)

C28_Witness ==
  /\ TreatedAsEmpty
  /\ file0.kind = "garbage"
  /\ pc = "done"
  /\ writeLog = <<"ok">>
  /\ Len(file.records) >= 3
  /\ speciesLog[1].record # file.records[1]

\* The scripts whose child process is over.
Settled == {k \in 1..Len(seedLog) : seedLog[k].result # "running"}

\* C29: seed_all starts seed_pokedex, seed_moves and seed_items in that order,
\* each one only after the one before has exited with code 0; at the first
\* script that ends otherwise seed_all exits with code 1 and starts no other.
C29_ScriptsInOrder ==
  /\ Len(seedLog) <= 3
  /\ \A k \in 1..Len(seedLog) :
       /\ seedLog[k].name = <<"seed_pokedex", "seed_moves", "seed_items">>[k]
       /\ k < Len(seedLog) => seedLog[k].result = "exit0"
  /\ (\E k \in Settled : seedLog[k].result # "exit0") =>
       /\ seedPc = "exit"
       /\ seedExit = 1
  /\ seedPc = "exit" => seedExit = 1 /\ seedLog[Len(seedLog)].result \notin {"exit0", "running"}
  /\ seedPc = "exec" =>
       /\ seedExit = "running"
       /\ seedLog # <<>>
       /\ seedLog[Len(seedLog)].result = "running"
  /\ seedPc = "done" =>
       /\ seedExit = 0
       /\ Len(seedLog) = 3
       /\ \A k \in 1..3 : seedLog[k].result = "exit0"

C29_Witness ==
  /\ seedPc = "exit"
  /\ Len(seedLog) = 2
  /\ seedLog[1].result = "exit0"
  /\ seedLog[2].result = "maxBuffer"

\* The run is over: the dataset was written and the run completed, or the
\* process exited with a non-zero code.
Terminated ==
  \/ /\ pc = "done"
     /\ exitCode = 0
     /\ writeLog # <<>>
     /\ writeLog[Len(writeLog)] = "ok"
  \/ /\ pc = "exit"
     /\ exitCode = 1

\* C30: whatever the rosters and the outcomes of the fetches, if every fetch,
\* delay and file operation eventually completes, the run terminates: it
\* eventually writes the dataset and completes, or exits with a non-zero code.
C30_Terminates == <>Terminated

C30_Witness ==
  /\ Terminated
  /\ FullRun
  /\ pc = "done"
  /\ faults = MaxFaults
  /\ Len(speciesLog) > Len(GenerationRoster(1))
  /\ \E k \in Finished : FormFetchFailed(k) \/ SpeciesFetchFailed(k) \/ ChainFetchFailed(k)

====
